---- MODULE Spec2Model ----
(***************************************************************************)
(* Model of the Localiser command line tool (src/index.js).                *)
(*                                                                         *)
(* One run of the program is one behaviour: Localiser.run() loads the      *)
(* configuration, resolves the target languages and the namespaces, asks   *)
(* for confirmation when a requested namespace is not configured, and then *)
(* walks languages x namespaces sequentially, calling the file processor   *)
(* for each pair and the progress renderer before each file and after each *)
(* language.  The inputs of a run (configuration file, command line        *)
(* options, the locale files on disk) are chosen in Init; the answers of   *)
(* the environment (the typed confirmation, the translation service, file  *)
(* I/O) are chosen in the actions.                                         *)
(***************************************************************************)
EXTENDS Integers, Sequences, FiniteSets, TLC

VARIABLES
    configFile,            \* the configuration file on disk (input)
    options,               \* this.options, as parsed by commander
    config,                \* this.config
    stats,                 \* this.stats
    files,                 \* locale files on disk: <<language, namespace>> -> document
    initialFiles,          \* the locale files as they were before the run
    dirs,                  \* language directories that exist under config.directory
    languagesToTranslate,  \* run(): const languagesToTranslate
    validNamespaces,       \* run(): const validNamespaces
    invalidNamespaces,     \* run(): const invalidNamespaces
    continueChoice,        \* run(): const continueChoice (the normalised answer)
    langIdx,               \* position of run()'s for..of loop
    nsIdx,                 \* processLocale(): loop variable i (1-based here)
    calls,                 \* processNamespaceFile invocations so far, in order
    requests,              \* translation requests sent so far, in order
    last,                  \* what the latest processNamespaceFile invocation saw and did
    pc                     \* position of the run

vars == <<configFile, options, config, stats, files, initialFiles, dirs, languagesToTranslate,
          validNamespaces, invalidNamespaces, continueChoice, langIdx, nsIdx,
          calls, requests, last, pc>>

----------------------------------------------------------------------------
(* Bounds of the model *)

MaxLangs == 2        \* longest config.languages
MaxNamespaces == 2   \* longest config.namespaces
MaxNsArgs == 2       \* most names given to --namespace

\* Language codes and namespace names of the model.  A configuration lists
\* distinct entries; the program treats the entries of either list alike, so
\* the lists are taken in one fixed order.
LangOrder == <<"en", "fr", "de">>
NsOrder == <<"home", "common">>
LangCodes == {"en", "fr", "de"}
NsNames == {"home", "common"}

\* Sequences over S of length at most n
SeqsUpTo(S, n) == UNION {[1..k -> S] : k \in 0..n}

\* Position of x in a sequence without repeated elements
Pos(base, x) == CHOOSE i \in 1..Len(base) : base[i] = x

\* Sequences of at most n distinct elements of base, in base's order
SubSeqsOf(base, n) ==
    {s \in SeqsUpTo({base[i] : i \in 1..Len(base)}, n) :
        \A i, j \in 1..Len(s) : i < j => Pos(base, s[i]) < Pos(base, s[j])}

Range(s) == {s[i] : i \in 1..Len(s)}

\* Array.prototype.includes
Includes(s, x) == x \in Range(s)

----------------------------------------------------------------------------
(* Locale documents: a JSON object is the set of its <<key path, string>>   *)
(* leaves, so nesting is the key path.                                     *)

EmptyDoc == {}

DocSource ==
    {<<(<<"welcome">>), "Welcome">>, <<(<<"buttons", "save">>), "Save">>}

DocTranslated ==
    {<<(<<"welcome">>), "Bienvenue">>, <<(<<"buttons", "save">>), "Enregistrer">>}

DocStale ==
    {<<(<<"welcome">>), "Ancien">>, <<(<<"legacy">>), "Vieux">>}

\* Object.keys(doc).length: the number of top-level keys
ObjectKeysLength(doc) == Cardinality({leaf[1][1] : leaf \in doc})


----------------------------------------------------------------------------
(* Inputs of a run *)

NoConfig == [sourceLanguage |-> "", languages |-> <<>>, namespaces |-> <<>>]

\* The configuration file: unreadable (missing or not JSON), or a well-formed
\* configuration with all four fields.  config.directory is the root under
\* which every path of the model lies.
ConfigFiles ==
    {[readable |-> FALSE, content |-> NoConfig]} \cup
    {[readable |-> TRUE,
      content |-> [sourceLanguage |-> "en", languages |-> ls, namespaces |-> nss]] :
        ls \in SubSeqsOf(LangOrder, MaxLangs), nss \in SubSeqsOf(NsOrder, MaxNamespaces)}

\* commander leaves options.namespace undefined when -n is absent and never
\* yields an empty array; every use in the program treats the two alike, and
\* <<>> stands for both.  options.language defaults to "".
OptionSets ==
    [language : {""} \cup LangCodes, namespace : SeqsUpTo(NsNames, MaxNsArgs)]

\* The locale tree before the run: any subset of the source files exists;
\* fr/home.json is left from an earlier run with stale content, and no other
\* target file exists.
InitialFiles ==
    {[p \in ({"en"} \X present) \cup {<<"fr", "home">>} |->
        IF p[1] = "en" THEN DocSource ELSE DocStale] :
        present \in SUBSET NsNames}

DirsOf(fs) == {p[1] : p \in DOMAIN fs}

\* What the user may type at the confirmation prompt, character by character
TypedAnswers ==
    { <<"y">>, <<"Y">>, <<"y", "e", "s">>, <<" ", "Y", "E", "S", " ">>, <<"y", " ">>,
      <<"n">>, <<"n", "o">>, <<"N", "O">>, <<>>, <<"y", "e">>, <<"o", "k">> }

----------------------------------------------------------------------------
(* String helpers of promptUser *)

IsWhitespace(c) == c = " "

RECURSIVE TrimStart(_)
TrimStart(s) ==
    IF s # <<>> /\ IsWhitespace(Head(s)) THEN TrimStart(Tail(s)) ELSE s

RECURSIVE TrimEnd(_)
TrimEnd(s) ==
    IF s # <<>> /\ IsWhitespace(s[Len(s)]) THEN TrimEnd(SubSeq(s, 1, Len(s) - 1)) ELSE s

\* String.prototype.trim
Trim(s) == TrimEnd(TrimStart(s))

LowerChar(c) ==
    CASE c = "Y" -> "y" [] c = "E" -> "e" [] c = "S" -> "s"
      [] c = "N" -> "n" [] c = "O" -> "o" [] OTHER -> c

\* String.prototype.toLowerCase
ToLowerCase(s) == [i \in 1..Len(s) |-> LowerChar(s[i])]

\* promptUser: resolve(answer.trim().toLowerCase())
promptUser(answer) == ToLowerCase(Trim(answer))

\* Variant: only a plain "n" stops the run
IsAffirmative_OnlyNStops(choice) == choice # <<"n">>

\* run(): the choice that lets the run continue past the gate
IsAffirmative(choice) == choice = <<"y">> \/ choice = <<"y", "e", "s">>

----------------------------------------------------------------------------
(* Resolution of languages and namespaces *)

\* run(): options.language ? [options.language] : config.languages minus source
LanguagesToTranslate(opts, cfg) ==
    IF opts.language # "" THEN <<opts.language>>
    ELSE SelectSeq(cfg.languages, LAMBDA lang : lang # cfg.sourceLanguage)

validateNamespaces(cfg, inputNamespaces) ==
    IF Len(inputNamespaces) = 0 THEN [valid |-> cfg.namespaces, errors |-> <<>>]
    ELSE [valid  |-> SelectSeq(inputNamespaces, LAMBDA ns : Includes(cfg.namespaces, ns)),
          errors |-> SelectSeq(inputNamespaces, LAMBDA ns : ~Includes(cfg.namespaces, ns))]

\* Variant: the membership test is left out
IsSupported_Unchecked(cfg, language) == TRUE

\* run(): the test that sends a language to processLocale
IsSupported(cfg, language) == Includes(cfg.languages, language)

\* run(): the third argument of the processLocale call
LocaleArgument(opts, valid) == opts.namespace

\* processLocale(): namespaces && namespaces.length > 0 ? namespaces : config.namespaces
LocaleNamespaces(cfg, namespaces) ==
    IF Len(namespaces) > 0 THEN namespaces ELSE cfg.namespaces

\* processLocale(): return stats.namespaces.completed === stats.namespaces.total
LocaleVerdict(st) == st.namespaces.completed = st.namespaces.total

----------------------------------------------------------------------------
(* Progress renderer.  JavaScript numbers that matter here: a quotient by     *)
(* zero is NaN (0/0) or Infinity (n/0, n > 0); Math.round rounds half up;     *)
(* String.prototype.repeat(count) takes NaN as 0 and throws a RangeError for  *)
(* a negative or infinite count.                                              *)

barLength == 15

Num(n) == [kind |-> "num", n |-> n]
NaN == [kind |-> "nan", n |-> 0]
PlusInfinity == [kind |-> "+inf", n |-> 0]
MinusInfinity == [kind |-> "-inf", n |-> 0]

\* Math.round((current / total) * scale), for current, total >= 0
RoundRatio(current, total, scale) ==
    IF total = 0
    THEN (IF current = 0 THEN NaN ELSE PlusInfinity)
    ELSE Num((2 * current * scale + total) \div (2 * total))

\* barLength - filledLength
EmptyLength(filled) ==
    CASE filled.kind = "num" -> Num(barLength - filled.n)
      [] filled.kind = "nan" -> NaN
      [] filled.kind = "+inf" -> MinusInfinity
      [] OTHER -> PlusInfinity

\* String.prototype.repeat(count) throws RangeError
RepeatThrows(count) ==
    \/ count.kind \in {"+inf", "-inf"}
    \/ count.kind = "num" /\ count.n < 0

\* One bar: "█".repeat(filled) + "░".repeat(barLength - filled)
BarThrows(current, total) ==
    LET filled == RoundRatio(current, total, barLength)
    IN  RepeatThrows(filled) \/ RepeatThrows(EmptyLength(filled))

\* showCombinedProgress raises instead of returning
showCombinedProgressThrows(st) ==
    \/ BarThrows(st.languages.completed, st.languages.total)
    \/ BarThrows(st.namespaces.completed, st.namespaces.total)

----------------------------------------------------------------------------
(* Translation adapter and file processor *)

\* What the service may answer to one request about srcDoc: the request
\* fails, the text is not JSON, or it parses to an object (empty, the input
\* unchanged, a translation).
Responses(srcDoc) ==
    {[kind |-> "requestError", doc |-> EmptyDoc], [kind |-> "unparsable", doc |-> EmptyDoc]}
    \cup {[kind |-> "json", doc |-> d] : d \in {EmptyDoc, srcDoc, DocTranslated}}

\* translateJson: the parsed object, or {} after either catch
translateJson(response) ==
    IF response.kind = "json" THEN response.doc ELSE EmptyDoc

\* fs.existsSync
ExistsSync(fs, path) == path \in DOMAIN fs

\* Variant: leaves of an existing file that the document lacks are kept
writeJson_Merge(fs, path, doc) ==
    [p \in DOMAIN fs \cup {path} |->
        IF p = path
        THEN (IF path \in DOMAIN fs
              THEN doc \cup {leaf \in fs[path] : \A d \in doc : d[1] # leaf[1]}
              ELSE doc)
        ELSE fs[p]]

\* fs.writeJson: the file holds exactly the document afterwards
writeJson(fs, path, doc) ==
    [p \in DOMAIN fs \cup {path} |-> IF p = path THEN doc ELSE fs[p]]

\* Variant: an empty object is written too
ShouldWrite_AcceptsEmpty(translatedContent) == ObjectKeysLength(translatedContent) >= 0

\* processNamespaceFile: if (Object.keys(translatedContent).length > 0)
ShouldWrite(translatedContent) == ObjectKeysLength(translatedContent) > 0

\* The environment of one processNamespaceFile call: whether fs.readJson and
\* fs.writeJson succeed, and the service's answer.  Only the combinations
\* that the call can tell apart are listed: the answer is not looked at
\* after a rejected read, nor the write when nothing is to be written.
FileIO(srcDoc) ==
    {[readOk |-> FALSE, response |-> [kind |-> "requestError", doc |-> EmptyDoc],
      writeOk |-> TRUE]}
    \cup {[readOk |-> TRUE, response |-> r, writeOk |-> TRUE] : r \in Responses(srcDoc)}
    \cup {[readOk |-> TRUE, response |-> r, writeOk |-> FALSE] :
             r \in {x \in Responses(srcDoc) : x.doc # EmptyDoc}}

\* processNamespaceFile(sourceLanguageDir, targetLanguageDir, file): its
\* return value, the files afterwards, whether a request was sent, and what
\* the adapter returned.  A rejected read or write lands in catch (_) {}.
processNamespaceFile(fs, sourcePath, targetPath, io) ==
    LET failed == [success |-> FALSE, files |-> fs, requested |-> FALSE,
                   adapter |-> "none", translated |-> EmptyDoc]
    IN  IF ~ExistsSync(fs, sourcePath) THEN failed
        ELSE IF ~io.readOk THEN failed
        ELSE LET translatedContent == translateJson(io.response)
                 asked == [failed EXCEPT !.requested = TRUE,
                                         !.adapter = io.response.kind,
                                         !.translated = translatedContent]
             IN  IF ShouldWrite(translatedContent) /\ io.writeOk
                 THEN [asked EXCEPT !.success = TRUE,
                                    !.files = writeJson(fs, targetPath, translatedContent)]
                 ELSE asked

----------------------------------------------------------------------------
(* The run *)

\* Variant: a failed file is not counted
CountFile_FailureUncounted(st, success) ==
    IF success THEN [st EXCEPT !.namespaces.completed = @ + 1] ELSE st

\* processLocale(): if (success) namespaces.completed++ else namespaces.failed++
CountFile(st, success) ==
    IF success THEN [st EXCEPT !.namespaces.completed = @ + 1]
    ELSE [st EXCEPT !.namespaces.failed = @ + 1]

\* run(): if (success) languages.completed++ else languages.failed++
CountLanguage(st, success) ==
    IF success THEN [st EXCEPT !.languages.completed = @ + 1]
    ELSE [st EXCEPT !.languages.failed = @ + 1]

ZeroCounters == [total |-> 0, completed |-> 0, failed |-> 0]

NoCall == [lang |-> "", ns |-> "", sourceExisted |-> FALSE, targetExisted |-> FALSE,
           requested |-> FALSE, adapter |-> "none", translated |-> EmptyDoc,
           success |-> FALSE, localeSucceeded |-> TRUE]

\* State after new Localiser(), with the inputs of the run chosen
Init ==
    /\ configFile \in ConfigFiles
    /\ options \in OptionSets
    /\ files \in InitialFiles
    /\ initialFiles = files
    /\ dirs = DirsOf(files)
    /\ config = NoConfig
    /\ stats = [languages |-> ZeroCounters, namespaces |-> ZeroCounters]
    /\ languagesToTranslate = <<>>
    /\ validNamespaces = <<>>
    /\ invalidNamespaces = <<>>
    /\ continueChoice = <<>>
    /\ langIdx = 1
    /\ nsIdx = 1
    /\ calls = <<>>
    /\ requests = <<>>
    /\ last = NoCall
    /\ pc = "start"

\* loadProjectConfig fails: the error is logged and process.exit(1)
LoadConfigFails ==
    /\ pc = "start"
    /\ ~configFile.readable
    /\ pc' = "configError"
    /\ UNCHANGED <<configFile, initialFiles, options, config, stats, files, dirs, languagesToTranslate,
                   validNamespaces, invalidNamespaces, continueChoice, langIdx, nsIdx,
                   calls, requests, last>>

\* run(), from its start to the gate: the configuration is loaded, languages
\* and namespaces are resolved and both totals are set
RunStart ==
    /\ pc = "start"
    /\ configFile.readable
    /\ LET cfg == configFile.content
           validation == validateNamespaces(cfg, options.namespace)
           targets == LanguagesToTranslate(options, cfg)
       IN  /\ config' = cfg
           /\ languagesToTranslate' = targets
           /\ validNamespaces' = validation.valid
           /\ invalidNamespaces' = validation.errors
           /\ stats' = [stats EXCEPT !.languages.total = Len(targets),
                                     !.namespaces.total = Len(validation.valid)]
           /\ pc' = IF Len(validation.errors) > 0 THEN "prompt" ELSE "loop"
    /\ UNCHANGED <<configFile, initialFiles, options, files, dirs, continueChoice, langIdx, nsIdx,
                   calls, requests, last>>

\* run(), the confirmation gate: the user types an answer; anything but
\* "y" / "yes" cancels with process.exit(0)
RunConfirm ==
    /\ pc = "prompt"
    /\ \E answer \in TypedAnswers :
          /\ continueChoice' = promptUser(answer)
          /\ pc' = IF IsAffirmative(continueChoice') THEN "loop" ELSE "cancelled"
    /\ UNCHANGED <<configFile, initialFiles, options, config, stats, files, dirs, languagesToTranslate,
                   validNamespaces, invalidNamespaces, langIdx, nsIdx, calls, requests,
                   last>>

\* run(): the loop over languagesToTranslate is exhausted
RunCompleted ==
    /\ pc = "loop"
    /\ langIdx > Len(languagesToTranslate)
    /\ pc' = "completed"
    /\ UNCHANGED <<configFile, initialFiles, options, config, stats, files, dirs, languagesToTranslate,
                   validNamespaces, invalidNamespaces, continueChoice, langIdx, nsIdx,
                   calls, requests, last>>

\* run(): the language is not in config.languages
RunUnsupportedLanguage ==
    /\ pc = "loop"
    /\ langIdx <= Len(languagesToTranslate)
    /\ ~IsSupported(config, languagesToTranslate[langIdx])
    /\ stats' = [stats EXCEPT !.languages.failed = @ + 1]
    /\ langIdx' = langIdx + 1
    /\ UNCHANGED <<configFile, initialFiles, options, config, files, dirs, languagesToTranslate,
                   validNamespaces, invalidNamespaces, continueChoice, nsIdx, calls,
                   requests, last, pc>>

\* The namespaces processLocale walks in this run
LocaleFiles == LocaleNamespaces(config, LocaleArgument(options, validNamespaces))

\* run() calls processLocale, which ensures the target directory and
\* enters its loop.  fs.ensureDir is taken to succeed.
ProcessLocaleStart ==
    /\ pc = "loop"
    /\ langIdx <= Len(languagesToTranslate)
    /\ IsSupported(config, languagesToTranslate[langIdx])
    /\ dirs' = dirs \cup {languagesToTranslate[langIdx]}
    /\ nsIdx' = 1
    /\ pc' = IF Len(LocaleFiles) >= 1 THEN "fileProgress" ELSE "verdict"
    /\ UNCHANGED <<configFile, initialFiles, options, config, stats, files, languagesToTranslate,
                   validNamespaces, invalidNamespaces, continueChoice, langIdx, calls,
                   requests, last>>

\* processLocale(): showCombinedProgress(targetLanguage, namespaceName); a
\* RangeError propagates out of run() to the top-level catch, process.exit(1)
FileProgress ==
    /\ pc = "fileProgress"
    /\ pc' = IF showCombinedProgressThrows(stats) THEN "unhandled" ELSE "file"
    /\ UNCHANGED <<configFile, initialFiles, options, config, stats, files, dirs, languagesToTranslate,
                   validNamespaces, invalidNamespaces, continueChoice, langIdx, nsIdx,
                   calls, requests, last>>

\* processLocale(): one file is processed and counted
ProcessFile ==
    /\ pc = "file"
    /\ LET lang == languagesToTranslate[langIdx]
           ns == LocaleFiles[nsIdx]
           sourcePath == <<config.sourceLanguage, ns>>
           targetPath == <<lang, ns>>
           srcDoc == IF ExistsSync(files, sourcePath) THEN files[sourcePath] ELSE EmptyDoc
       IN  \E io \in FileIO(srcDoc) :
              LET r == processNamespaceFile(files, sourcePath, targetPath, io)
              IN  /\ files' = r.files
                  /\ calls' = Append(calls, targetPath)
                  /\ requests' = IF r.requested THEN Append(requests, targetPath)
                                 ELSE requests
                  /\ stats' = CountFile(stats, r.success)
                  /\ last' = [lang |-> lang, ns |-> ns,
                              sourceExisted |-> ExistsSync(files, sourcePath),
                              targetExisted |-> ExistsSync(files, targetPath),
                              requested |-> r.requested, adapter |-> r.adapter,
                              translated |-> r.translated, success |-> r.success,
                              localeSucceeded |->
                                  r.success /\ (nsIdx = 1 \/ last.localeSucceeded)]
    /\ nsIdx' = nsIdx + 1
    /\ pc' = IF nsIdx + 1 <= Len(LocaleFiles) THEN "fileProgress" ELSE "verdict"
    /\ UNCHANGED <<configFile, initialFiles, options, config, dirs, languagesToTranslate,
                   validNamespaces, invalidNamespaces, continueChoice, langIdx>>

\* processLocale() returns and run() counts the language
LanguageVerdict ==
    /\ pc = "verdict"
    /\ stats' = CountLanguage(stats, LocaleVerdict(stats))
    /\ pc' = "languageProgress"
    /\ UNCHANGED <<configFile, initialFiles, options, config, files, dirs, languagesToTranslate,
                   validNamespaces, invalidNamespaces, continueChoice, langIdx, nsIdx,
                   calls, requests, last>>

\* run(): showCombinedProgress(language, "completed"), then the next language
LanguageProgress ==
    /\ pc = "languageProgress"
    /\ IF showCombinedProgressThrows(stats)
       THEN pc' = "unhandled" /\ langIdx' = langIdx
       ELSE pc' = "loop" /\ langIdx' = langIdx + 1
    /\ UNCHANGED <<configFile, initialFiles, options, config, stats, files, dirs, languagesToTranslate,
                   validNamespaces, invalidNamespaces, continueChoice, nsIdx, calls,
                   requests, last>>

Next ==
    \/ LoadConfigFails
    \/ RunStart
    \/ RunConfirm
    \/ RunCompleted
    \/ RunUnsupportedLanguage
    \/ ProcessLocaleStart
    \/ FileProgress
    \/ ProcessFile
    \/ LanguageVerdict
    \/ LanguageProgress

Spec == Init /\ [][Next]_vars

----------------------------------------------------------------------------
(* Properties *)

Yes == {<<"y">>, <<"y", "e", "s">>}

CountersZero ==
    /\ stats.languages.completed = 0 /\ stats.languages.failed = 0
    /\ stats.namespaces.completed = 0 /\ stats.namespaces.failed = 0

\* The pair the file processor is about to be, or was last, invoked for
CurrentSource == <<config.sourceLanguage, LocaleFiles[nsIdx]>>
CurrentTarget == <<languagesToTranslate[langIdx], LocaleFiles[nsIdx]>>

\* The supported target languages, in order
SupportedTargets ==
    SelectSeq(languagesToTranslate, LAMBDA lang : lang \in Range(config.languages))

\* Supported target languages x valid namespaces, language-major
ExpectedCalls ==
    LET n == Len(validNamespaces)
    IN  [k \in 1..(Len(SupportedTargets) * n) |->
            <<SupportedTargets[((k - 1) \div n) + 1], validNamespaces[((k - 1) % n) + 1]>>]

\* C1: when run() reaches its normal end, completed + failed = total for the
\* language counters and for the namespace counters.
C1_CountersBalanceAtEnd ==
    pc = "completed" =>
        /\ stats.languages.completed + stats.languages.failed = stats.languages.total
        /\ stats.namespaces.completed + stats.namespaces.failed = stats.namespaces.total

\* C2: after an invalid --namespace entry was confirmed with "yes", the file
\* processor is invoked only for namespaces validateNamespaces returned as
\* valid, and namespaces.total is the size of the valid subset.
C2_OnlyValidSubsetProcessed ==
    (Len(invalidNamespaces) > 0 /\ continueChoice \in Yes) =>
        /\ \A i \in 1..Len(calls) : calls[i][2] \in Range(validNamespaces)
        /\ stats.namespaces.total = Len(validNamespaces)

\* C3: after an invalid --namespace entry was answered with anything that,
\* trimmed and lower-cased, is neither "y" nor "yes", the run is cancelled at
\* the gate: no request was sent, no directory or file was created or
\* written, and the four completed/failed counters are 0.
C3_DeclinedGateAborts ==
    (pc \notin {"start", "prompt"} /\ Len(invalidNamespaces) > 0 /\ continueChoice \notin Yes) =>
        /\ pc = "cancelled"
        /\ requests = <<>>
        /\ calls = <<>>
        /\ files = initialFiles
        /\ dirs = DirsOf(initialFiles)
        /\ CountersZero

\* C3 witness: an invalid namespace was requested, the user typed "no" (in
\* some case and spacing) and the process has exited
C3_Witness ==
    /\ pc = "cancelled"
    /\ Len(invalidNamespaces) > 0
    /\ continueChoice = <<"n", "o">>
    /\ Len(languagesToTranslate) > 0

\* C4: a file step for a pair whose source file does not exist sends no
\* request, writes nothing, adds exactly 1 to namespaces.failed and nothing
\* to namespaces.completed; and while that pair is the latest one processed
\* the run does not end in the unhandled-error exit.
C4_MissingSourceFails ==
    [][ /\ (pc = "file" /\ CurrentSource \notin DOMAIN files) =>
            /\ requests' = requests
            /\ files' = files
            /\ ~last'.success /\ ~last'.requested
            /\ calls' = Append(calls, CurrentTarget)
            /\ stats'.namespaces.failed = stats.namespaces.failed + 1
            /\ stats'.namespaces.completed = stats.namespaces.completed
            /\ pc' \in {"fileProgress", "verdict"}
        /\ (last.lang # "" /\ ~last.sourceExisted) => pc' # "unhandled"
      ]_vars

\* C4 witness: a pair without source file was counted as failed and the run
\* has moved on to the next pair
C4_Witness ==
    /\ pc = "file"
    /\ last.lang # "" /\ ~last.sourceExisted
    /\ stats.namespaces.failed >= 1
    /\ <<last.lang, last.ns>> \notin DOMAIN files

\* C5: a request failure or an unparsable response makes the adapter return
\* the empty mapping; a file step in which the adapter returned the empty
\* mapping writes nothing, adds exactly 1 to namespaces.failed and nothing to
\* namespaces.completed; and while that pair is the latest one processed the
\* run does not end in the unhandled-error exit.
C5_EmptyTranslationFails ==
    [][ /\ (pc = "file" /\ last'.adapter \in {"requestError", "unparsable"}) =>
            last'.translated = EmptyDoc
        /\ (pc = "file" /\ last'.requested /\ last'.translated = EmptyDoc) =>
            /\ files' = files
            /\ ~last'.success
            /\ stats'.namespaces.failed = stats.namespaces.failed + 1
            /\ stats'.namespaces.completed = stats.namespaces.completed
            /\ pc' \in {"fileProgress", "verdict"}
        /\ (last.requested /\ last.translated = EmptyDoc) => pc' # "unhandled"
      ]_vars

\* C5 witness: the service's answer could not be parsed, the pair was counted
\* as failed with its stale target file untouched, and the run has moved on
C5_Witness ==
    /\ pc = "file"
    /\ last.adapter = "unparsable" /\ last.translated = EmptyDoc
    /\ last.targetExisted
    /\ files[<<last.lang, last.ns>>] = DocStale
    /\ stats.namespaces.failed >= 1

\* C6: after a file step that succeeds, the target file holds exactly the
\* mapping the adapter returned, whatever it held before; when the adapter
\* returned its input unchanged, the target file equals the source file.
C6_TargetIsAdapterResult ==
    [][ (pc = "file" /\ last'.success) =>
            /\ CurrentTarget \in DOMAIN files'
            /\ files'[CurrentTarget] = last'.translated
            /\ last'.translated = files[CurrentSource] =>
                  files'[CurrentTarget] = files[CurrentSource]
            /\ \A p \in DOMAIN files : p # CurrentTarget => files'[p] = files[p]
      ]_vars

\* C6 witness: a stale target file was replaced by the unchanged source
C6_Witness ==
    /\ last.success /\ last.targetExisted
    /\ last.lang # config.sourceLanguage
    /\ initialFiles[<<last.lang, last.ns>>] = DocStale
    /\ last.translated = DocSource
    /\ files[<<last.lang, last.ns>>] = DocSource

\* C7: showCombinedProgress returns normally in every state in which the
\* orchestrator invokes it, so the run never leaves through the top-level
\* error handler because of it.
C7_ProgressNeverThrows ==
    /\ pc \in {"fileProgress", "languageProgress"} => ~showCombinedProgressThrows(stats)
    /\ pc # "unhandled"

\* C8: a run that passed the gate terminates with 'Translation process
\* completed', having invoked the file processor exactly once for every pair
\* of supported target language x namespace to process, language-major.
C8_NormalEndAfterEveryPair ==
    /\ pc # "unhandled"
    /\ pc = "completed" => calls = ExpectedCalls

\* C9: in every reachable state completed + failed <= total, for the
\* language counters and for the namespace counters.
C9_CountersBounded ==
    /\ stats.languages.completed + stats.languages.failed <= stats.languages.total
    /\ stats.namespaces.completed + stats.namespaces.failed <= stats.namespaces.total

\* C10: a --language value that is not in config.languages costs exactly one
\* languages.failed and nothing else: no directory is created, no request is
\* sent, no file is written, languages.completed stays 0, and the run reaches
\* its normal end unless it was cancelled at the gate.
C10_UnsupportedLanguageOnlyFails ==
    (pc \notin {"start", "configError"} /\ options.language # ""
        /\ options.language \notin Range(config.languages)) =>
        /\ pc \in {"prompt", "cancelled", "loop", "completed"}
        /\ dirs = DirsOf(initialFiles)
        /\ files = initialFiles
        /\ requests = <<>>
        /\ calls = <<>>
        /\ stats.languages.completed = 0
        /\ stats.languages.failed = (IF langIdx > 1 THEN 1 ELSE 0)
        /\ pc = "completed" => langIdx = 2

\* C10 witness: the run ended normally with the unsupported language counted
\* as its one failure
C10_Witness ==
    /\ pc = "completed"
    /\ options.language = "de" /\ "de" \notin Range(config.languages)
    /\ "fr" \in Range(config.languages)
    /\ stats.languages.failed = 1 /\ stats.languages.total = 1

\* Every file processed in the processLocale call that is about to return
\* succeeded (last.localeSucceeded is history: it restarts with the first
\* file of each call)
LocaleAllSucceeded == Len(LocaleFiles) = 0 \/ last.localeSucceeded

\* C11: when processLocale returns, run() counts the language in
\* languages.completed if every namespace file processed for it in this call
\* succeeded, and in languages.failed otherwise, whatever happened for the
\* languages before it.
C11_VerdictIsPerLanguage ==
    [][ pc = "verdict" =>
            /\ LocaleAllSucceeded =>
                  /\ stats'.languages.completed = stats.languages.completed + 1
                  /\ stats'.languages.failed = stats.languages.failed
            /\ ~LocaleAllSucceeded =>
                  /\ stats'.languages.failed = stats.languages.failed + 1
                  /\ stats'.languages.completed = stats.languages.completed
      ]_vars

\* C12: no file is ever written under the source language: the source files
\* stay as they were before the run, and no successful file step had the
\* source language as its target.
C12_SourceNeverWritten ==
    /\ last.success => last.lang # config.sourceLanguage
    /\ \A p \in DOMAIN files \cup DOMAIN initialFiles :
          p[1] = config.sourceLanguage =>
              /\ p \in DOMAIN files /\ p \in DOMAIN initialFiles
              /\ files[p] = initialFiles[p]

====
